---- MODULE Spec2Model ----
(***************************************************************************)
(* Discount-sensitivity pipeline: 01_prepare_data.py (FeatureContract-     *)
(* Builder), 02_train_model.py (ModelTrainer), 03_score.py                 *)
(* (ContractScorer), 04_bucketize.py (Segmenter) and run_all.py.           *)
(*                                                                         *)
(* A table (pandas DataFrame) is a record                                  *)
(*     [cols : sequence of column names, rows : sequence of rows,          *)
(*      obj : set of the columns whose dtype is object]                    *)
(* and a row is a function from the column names to cells.  Every cell is  *)
(* the text of the CSV cell: the empty text is the missing value (NaN /    *)
(* NaT), a text of NumericText is a number, anything else is a string.     *)
(***************************************************************************)
EXTENDS Integers, Sequences, FiniteSets, TLC

VARIABLES
    input,        \* the raw CSV given as --input to the last command
    clean,        \* data/df_model_clean.parquet
    metadata,     \* artifacts/metadata.json
    model,        \* artifacts/model.txt
    scores,       \* data/scores.csv
    bucketized,   \* data/scores_bucketized.csv
    df_labelled,  \* 01_prepare_data.py: df right after the target is derived (line 131)
    matrix,       \* 03_score.py: df handed to model.predict (line 101)
    pc,           \* run_all.py: the stage about to start, or "idle"
    skip_train,   \* run_all.py: args.skip_train
    last_script,  \* the last script that ran ("none": none yet)
    exit_code,    \* exit status of the last script that ran (-1: none yet)
    error,        \* message of the exception that ended the last script ("" if none)
    trained_contract, \* artifacts/metadata.json as it was when model.txt was written
    seg_args,     \* 04_bucketize.py: <<args.t1, args.t2>> of its last run
    ncmd,         \* number of commands issued so far
    predicted,    \* 03_score.py: the array model.predict returned (line 101)
    run_log,      \* run_all.py: the stages run() has run in this invocation,
                  \* each with its return code
    status        \* run_all.py: its own exit status (-1: none yet)

vars == <<input, clean, metadata, model, scores, bucketized, df_labelled,
          matrix, pc, skip_train, last_script, exit_code, error,
          trained_contract, seg_args, ncmd, predicted, run_log, status>>

(***************************************************************************)
(* Bounds of the model.                                                    *)
(***************************************************************************)
MaxRows == 3        \* rows of a raw batch given to the builder alone
MaxScoreRows == 2   \* rows of a batch given to the scorer / to run_all
MaxCmds == 2        \* run_all invocations in one behaviour
MaxSegRows == 2     \* rows of a score table given to the segmenter alone

(***************************************************************************)
(* config.py                                                               *)
(***************************************************************************)
ID_COLS == <<"externalcustomerkey">>
DATE_COLS == <<"as_of_date", "first_order_date", "last_order_date">>
LEAKAGE_COLS == <<"discount_abs_lifetime_eur", "discount_rate_lifetime",
                  "share_of_orders_with_discount", "share_of_items_discounted",
                  "avg_discount_per_order", "max_discount_single_order">>
DROP_COLS == <<"gender", "shops_included", "registration_flag">>
DROP_GENDER == <<"gender">>
WINDOW_TOKENS == <<"_15d", "_30d", "_3m", "_6m", "_12m">>
TARGET_COLUMN == "y_discount_sensitive"
TARGET_SOURCE_COLS == <<"share_of_orders_with_discount", "discount_abs_lifetime_eur">>
SEGMENT_LABELS == <<"full_price", "conditional", "discount_driven">>

(***************************************************************************)
(* Cells.                                                                  *)
(***************************************************************************)
NaN == ""
NoFile == [exists |-> FALSE]
\* a file that exists and whose text json.load cannot parse
Garbled == [exists |-> TRUE, garbled |-> TRUE]

\* The texts read_csv parses as numbers, with their values in tenths.
NumValue == ("-1" :> (0 - 10)) @@ ("0" :> 0) @@ ("0.5" :> 5) @@ ("1" :> 10)
            @@ ("7" :> 70) @@ ("10" :> 100)
NumericText == DOMAIN NumValue
\* The texts pd.to_datetime(errors="coerce") parses.
DateText == {"2024-01-01", "2024-02-01"}

IsNa(v) == v = NaN
\* pandas: (series > 0); NaN > 0 is False.
GreaterThanZero(v) == v \in NumericText /\ NumValue[v] > 0

Range(s) == {s[i] : i \in DOMAIN s}

\* "tok in c" for the column names of the model: the names that carry a
\* window token of WINDOW_TOKENS.
WindowNamed == {"orders_30d", "visits_3m", "note_12m"}
HasWindowToken(c) == c \in WindowNamed

(***************************************************************************)
(* DataFrame operations.                                                   *)
(***************************************************************************)
HasCol(df, c) == c \in Range(df.cols)

\* df.drop(columns=S)
DropCols(df, S) ==
    [cols |-> SelectSeq(df.cols, LAMBDA c : c \notin S),
     rows |-> [i \in DOMAIN df.rows |->
                 [c \in (DOMAIN df.rows[i]) \ S |-> df.rows[i][c]]],
     obj  |-> df.obj \ S]

\* df[c] = f, f a sequence of cells (one per row); isobj: the dtype of f is object
SetCol(df, c, f, isobj) ==
    [cols |-> IF HasCol(df, c) THEN df.cols ELSE Append(df.cols, c),
     rows |-> [i \in DOMAIN df.rows |->
                 [k \in (DOMAIN df.rows[i]) \cup {c} |->
                     IF k = c THEN f[i] ELSE df.rows[i][k]]],
     obj  |-> IF isobj THEN df.obj \cup {c} ELSE df.obj \ {c}]

\* df[c].fillna(0)
FillNa(df, c) ==
    SetCol(df, c, [i \in DOMAIN df.rows |->
                     IF IsNa(df.rows[i][c]) THEN "0" ELSE df.rows[i][c]],
           c \in df.obj)

\* df[c].isna().all()
AllNull(df, c) == \A i \in DOMAIN df.rows : IsNa(df.rows[i][c])

\* df[c].nunique(dropna=False)
NUnique(df, c) == Cardinality({df.rows[i][c] : i \in DOMAIN df.rows})

\* the indices of the rows kept by df.dropna(), in order
RECURSIVE KeptFrom(_, _)
KeptFrom(df, i) ==
    IF i > Len(df.rows) THEN <<>>
    ELSE IF \E c \in DOMAIN df.rows[i] : IsNa(df.rows[i][c])
         THEN KeptFrom(df, i + 1)
         ELSE <<i>> \o KeptFrom(df, i + 1)

\* df.dropna()
DropNa(df) ==
    LET kept == KeptFrom(df, 1)
    IN  [cols |-> df.cols,
         rows |-> [k \in DOMAIN kept |-> df.rows[kept[k]]],
         obj  |-> df.obj]

\* pd.read_csv: a column holding a text that is no number has dtype object
ReadCsv(file) ==
    [cols |-> file.cols,
     rows |-> file.rows,
     obj  |-> {c \in Range(file.cols) :
                 \E i \in DOMAIN file.rows :
                    file.rows[i][c] \notin NumericText \cup {NaN}}]

(***************************************************************************)
(* 01_prepare_data.py                                                      *)
(***************************************************************************)
\* 1) pd.to_datetime(df[c], errors="coerce") for the DATE_COLS present
ParseDates(df) ==
    [cols |-> df.cols,
     rows |-> [i \in DOMAIN df.rows |->
                 [c \in DOMAIN df.rows[i] |->
                     IF c \in Range(DATE_COLS) /\ df.rows[i][c] \notin DateText
                     THEN NaN ELSE df.rows[i][c]]],
     obj  |-> df.obj \ Range(DATE_COLS)]

\* 2) drop the columns that are missing in every row
DropAllNull(df) == DropCols(df, {c \in Range(df.cols) : AllNull(df, c)})

\* 3) window_cols, and NaN -> 0 in them
WindowCols(df) ==
    {c \in Range(df.cols) :
        HasWindowToken(c) /\ c \notin Range(DATE_COLS) /\ c \notin df.obj}

FillWindow(df) ==
    [cols |-> df.cols,
     rows |-> [i \in DOMAIN df.rows |->
                 [c \in DOMAIN df.rows[i] |->
                     IF c \in WindowCols(df) /\ IsNa(df.rows[i][c])
                     THEN "0" ELSE df.rows[i][c]]],
     obj  |-> df.obj]

\* 4) avg_discount_per_order NaN -> 0
FillAvgDiscount(df) ==
    IF HasCol(df, "avg_discount_per_order")
    THEN FillNa(df, "avg_discount_per_order") ELSE df

\* 5) missing_req: the required source columns that df lacks
MissingReq(df) == SelectSeq(TARGET_SOURCE_COLS, LAMBDA c : ~HasCol(df, c))

\* TargetOf with "and" in place of "or"
TargetOfBoth(row) ==
    IF GreaterThanZero(row["share_of_orders_with_discount"])
       /\ GreaterThanZero(row["discount_abs_lifetime_eur"])
    THEN "1" ELSE "0"

\* 5) the value of y_discount_sensitive in one row
TargetOf(row) ==
    IF GreaterThanZero(row["share_of_orders_with_discount"])
       \/ GreaterThanZero(row["discount_abs_lifetime_eur"])
    THEN "1" ELSE "0"

\* 5) df["y_discount_sensitive"] = (...).astype(np.int8)
AddTarget(df) ==
    SetCol(df, TARGET_COLUMN, [i \in DOMAIN df.rows |-> TargetOf(df.rows[i])], FALSE)

\* DropLeakage that drops the two target source columns only
DropLeakageSourcesOnly(df) == DropCols(df, Range(TARGET_SOURCE_COLS))

\* 6) drop the leakage columns that are present
DropLeakage(df) == DropCols(df, Range(LEAKAGE_COLS))

\* 7) the number of rows whose country is v
CountryCount(df, v) ==
    Cardinality({i \in DOMAIN df.rows : df.rows[i]["country"] = v})

\* value_counts() leaves the missing values out (dropna=True), and
\* normalize=True divides by the number of the values it counted
CountedRows(df) ==
    Cardinality({i \in DOMAIN df.rows : ~IsNa(df.rows[i]["country"])})

\* the distinct countries of rows i.., in order of first appearance
RECURSIVE FirstSeen(_, _, _)
FirstSeen(df, i, seen) ==
    IF i > Len(df.rows) THEN <<>>
    ELSE LET v == df.rows[i]["country"]
         IN  IF IsNa(v) \/ v \in seen
             THEN FirstSeen(df, i + 1, seen)
             ELSE <<v>> \o FirstSeen(df, i + 1, seen \cup {v})

\* the index of value_counts(): the countries by descending count
RECURSIVE ByCount(_, _, _)
ByCount(df, vals, n) ==
    IF n = 0 THEN <<>>
    ELSE SelectSeq(vals, LAMBDA v : CountryCount(df, v) = n) \o ByCount(df, vals, n - 1)

ValueCounts(df) == ByCount(df, FirstSeen(df, 1, {}), Len(df.rows))

\* country_share[country_share >= args.country_min_share].index.tolist(),
\* the share count/counted compared with min_share = num/den
MajorCountries(df, min_share) ==
    SelectSeq(ValueCounts(df),
              LAMBDA v : CountryCount(df, v) * min_share.den
                            >= min_share.num * CountedRows(df))

\* df["country"].where(df["country"].isin(major_countries), "OTHER")
CountryGrouped(df, major_countries) ==
    [i \in DOMAIN df.rows |->
        IF df.rows[i]["country"] \in Range(major_countries)
        THEN df.rows[i]["country"] ELSE "OTHER"]

\* the order in which get_dummies sorts the categories (lexicographic)
CountryOrder == <<"DE", "FR", "IT", "OTHER", "XX">>

\* pd.get_dummies(grouped, prefix="country", dummy_na=False), then
\* pd.concat([df.drop(columns=["country", "country_grouped"]), dummies], axis=1)
EncodeCountry(df, major_countries) ==
    LET grouped == CountryGrouped(df, major_countries)
        cats == SelectSeq(CountryOrder,
                          LAMBDA v : \E i \in DOMAIN grouped : grouped[i] = v)
        names == [k \in DOMAIN cats |-> "country_" \o cats[k]]
        base == DropCols(df, {"country", "country_grouped"})
    IN  [cols |-> base.cols \o names,
         rows |-> [i \in DOMAIN base.rows |->
                     [c \in (DOMAIN base.rows[i]) \cup Range(names) |->
                         IF c \in Range(names)
                         THEN (IF c = "country_" \o grouped[i] THEN "1" ELSE "0")
                         ELSE base.rows[i][c]]],
         obj  |-> base.obj \ Range(names)]

\* 8) drop gender
DropGender(df) == DropCols(df, Range(DROP_GENDER))

\* 9) drop shops_included / registration_flag when constant
DropConstantFlags(df) ==
    DropCols(df, {c \in {"shops_included", "registration_flag"} :
                     HasCol(df, c) /\ NUnique(df, c) <= 1})

\* 10) drop the identifier and the date columns
DropIdDates(df) == DropCols(df, Range(ID_COLS) \cup Range(DATE_COLS))

\* 12) obj_cols: the object columns that remain
ObjCols(df) == SelectSeq(df.cols, LAMBDA c : c \in df.obj)

\* steps 1-4, up to the check of the required columns
PrepareLoad(file) == FillAvgDiscount(FillWindow(DropAllNull(ParseDates(ReadCsv(file)))))

\* steps 6-11 for a given vocabulary
PrepareEncode(df, major_countries) ==
    DropNa(DropIdDates(DropConstantFlags(DropGender(
        EncodeCountry(df, major_countries)))))

FeatureColumns(df) == SelectSeq(df.cols, LAMBDA c : c # TARGET_COLUMN)

\* a table as a file (or as the snapshot of a frame)
Frame(df) == [exists |-> TRUE, cols |-> df.cols, rows |-> df.rows]

Raise(msg) ==
    [ok |-> FALSE, error |-> msg, labelled |-> NoFile, clean |-> NoFile,
     metadata |-> NoFile]

\* main() of 01_prepare_data.py on the raw CSV `file`: what it raises or writes
PrepareData(file, min_share) ==
    LET d4 == PrepareLoad(file)
    IN  IF MissingReq(d4) # <<>> THEN Raise("Missing required columns for target")
        ELSE IF \E c \in Range(TARGET_SOURCE_COLS) : c \in d4.obj
        THEN Raise("TypeError")
        ELSE
        LET d5 == AddTarget(d4)
            d6 == DropLeakage(d5)
        IN  IF ~HasCol(d6, "country")
            THEN [Raise("Expected column 'country' not found") EXCEPT !.labelled = Frame(d5)]
            ELSE
            LET major_countries == MajorCountries(d6, min_share)
                d11 == PrepareEncode(d6, major_countries)
            IN  IF ObjCols(d11) # <<>>
                THEN [Raise("Non-numeric columns remain") EXCEPT !.labelled = Frame(d5)]
                ELSE [ok |-> TRUE, error |-> "", labelled |-> Frame(d5),
                      clean |-> Frame(d11),
                      metadata |-> [exists |-> TRUE,
                                    country_min_share |-> min_share,
                                    major_countries |-> major_countries,
                                    feature_columns |-> FeatureColumns(d11),
                                    target_column |-> TARGET_COLUMN]]

(***************************************************************************)
(* 02_train_model.py                                                       *)
(***************************************************************************)
\* feature_cols: the contract's list when the contract exists, else the
\* non-target columns of the clean table
TrainFeatureCols(df, meta) ==
    IF meta.exists /\ "feature_columns" \in DOMAIN meta
    THEN meta.feature_columns ELSE FeatureColumns(df)

\* main() of 02_train_model.py: what it raises, or the model it saves.  The
\* fitted ensemble is opaque; the model file records the feature names.
TrainModel(data, meta) ==
    IF ~data.exists THEN [ok |-> FALSE, error |-> "FileNotFoundError", model |-> NoFile]
    ELSE IF ~HasCol(data, TARGET_COLUMN)
    THEN [ok |-> FALSE, error |-> "Target column not found", model |-> NoFile]
    ELSE IF meta = Garbled
    THEN [ok |-> FALSE, error |-> "JSONDecodeError", model |-> NoFile]
    ELSE LET feature_cols == TrainFeatureCols(data, meta)
         IN  IF \E c \in Range(feature_cols) : ~HasCol(data, c)
             THEN [ok |-> FALSE, error |-> "KeyError", model |-> NoFile]
             ELSE [ok |-> TRUE, error |-> "",
                   model |-> [exists |-> TRUE, feature_name |-> feature_cols]]

(***************************************************************************)
(* 03_score.py                                                             *)
(***************************************************************************)
\* drop every column of DROP_COLS that is present
DropDropCols(df) == DropCols(df, Range(DROP_COLS))

\* for c in feature_cols: if c not in df.columns: df[c] = 0
RECURSIVE AddMissing(_, _, _)
AddMissing(df, feature_cols, k) ==
    IF k > Len(feature_cols) THEN df
    ELSE IF HasCol(df, feature_cols[k])
         THEN AddMissing(df, feature_cols, k + 1)
         ELSE AddMissing(SetCol(df, feature_cols[k],
                                [i \in DOMAIN df.rows |-> "0"], FALSE),
                         feature_cols, k + 1)

\* extra_cols, dropped
DropExtra(df, feature_cols) ==
    DropCols(df, {c \in Range(df.cols) : c \notin Range(feature_cols)})

\* SelectCols that keeps the order the columns have in df
SelectColsKeepOrder(df, feature_cols) ==
    [cols |-> df.cols,
     rows |-> df.rows,
     obj  |-> df.obj \cap Range(feature_cols)]

\* df = df[feature_cols]
SelectCols(df, feature_cols) ==
    [cols |-> feature_cols,
     rows |-> [i \in DOMAIN df.rows |->
                 [c \in Range(feature_cols) |-> df.rows[i][c]]],
     obj  |-> df.obj \cap Range(feature_cols)]

\* column reconciliation, lines 89-95
Reconcile(df, feature_cols) ==
    SelectCols(DropExtra(AddMissing(df, feature_cols, 1), feature_cols), feature_cols)

\* ScoreLoad followed by the builder's dropna()
ScoreLoadDroppingNa(df) ==
    DropNa(DropLeakage(FillAvgDiscount(FillWindow(DropAllNull(ParseDates(df))))))

\* dates, all-null columns, window columns, avg_discount_per_order, leakage
ScoreLoad(df) == DropLeakage(FillAvgDiscount(FillWindow(DropAllNull(ParseDates(df)))))

\* country encoding with the contract's vocabulary, DROP_COLS, id and dates
ScoreEncode(df, major_countries) ==
    DropIdDates(DropDropCols(EncodeCountry(df, major_countries)))

ScoreRaise(msg) == [ok |-> FALSE, error |-> msg, matrix |-> NoFile, ids |-> <<>>]

\* ReadContract that falls back on an empty vocabulary and an empty feature
\* list when the document cannot be parsed or lacks a field
ReadContractWithFallback(meta) ==
    IF ~meta.exists
    THEN [error |-> "Metadata not found", major_countries |-> <<>>, feature_columns |-> <<>>]
    ELSE [error |-> "",
          major_countries |-> IF "major_countries" \in DOMAIN meta
                              THEN meta.major_countries ELSE <<>>,
          feature_columns |-> IF "feature_columns" \in DOMAIN meta
                              THEN meta.feature_columns ELSE <<>>]

\* lines 37-42: the contract is read before the model and the batch;
\* json.load raises on a text that is no JSON, meta[...] on an absent key
ReadContract(meta) ==
    IF ~meta.exists
    THEN [error |-> "Metadata not found", major_countries |-> <<>>, feature_columns |-> <<>>]
    ELSE IF meta = Garbled
    THEN [error |-> "JSONDecodeError", major_countries |-> <<>>, feature_columns |-> <<>>]
    ELSE IF "major_countries" \notin DOMAIN meta \/ "feature_columns" \notin DOMAIN meta
    THEN [error |-> "KeyError", major_countries |-> <<>>, feature_columns |-> <<>>]
    ELSE [error |-> "", major_countries |-> meta.major_countries,
          feature_columns |-> meta.feature_columns]

\* main() of 03_score.py up to model.predict: what it raises, or the
\* identifiers it captured and the matrix it hands to the model
ScoreData(file, meta, mdl) ==
    LET contract == ReadContract(meta)
    IN
    IF contract.error # "" THEN ScoreRaise(contract.error)
    ELSE IF ~mdl.exists THEN ScoreRaise("Model not found")
    ELSE LET df == ReadCsv(file)
         IN  IF ~HasCol(df, "externalcustomerkey")
             THEN ScoreRaise("externalcustomerkey required in scoring input")
             ELSE
             LET ids == [i \in DOMAIN df.rows |-> df.rows[i]["externalcustomerkey"]]
                 d5 == ScoreLoad(df)
             IN  IF ~HasCol(d5, "country")
                 THEN ScoreRaise("Country column required for scoring")
                 ELSE
                 LET d9 == Reconcile(ScoreEncode(d5, contract.major_countries),
                                     contract.feature_columns)
                 IN  IF ObjCols(d9) # <<>>
                     THEN ScoreRaise("Non-numeric columns remain")
                     ELSE [ok |-> TRUE, error |-> "", matrix |-> Frame(d9), ids |-> ids]

(***************************************************************************)
(* 04_bucketize.py.  A score is a fixed-point number, in units of 1/One.   *)
(***************************************************************************)
One == 10000000

\* Cut with right=False: the bins are [bins[k], bins[k+1])
CutLeftClosed(score, bins, labels) ==
    IF \E k \in 1..(Len(bins) - 1) : bins[k] <= score /\ score < bins[k + 1]
    THEN labels[CHOOSE k \in 1..(Len(bins) - 1) :
                   bins[k] <= score /\ score < bins[k + 1]]
    ELSE NaN

\* pd.cut(score, bins, labels, include_lowest=True, right=True) for one
\* score: the label of the bin (bins[k], bins[k+1]] that holds it, the
\* lowest edge included; NaN when no bin holds it
Cut(score, bins, labels) ==
    IF score = bins[1] THEN labels[1]
    ELSE IF \E k \in 1..(Len(bins) - 1) : bins[k] < score /\ score <= bins[k + 1]
         THEN labels[CHOOSE k \in 1..(Len(bins) - 1) :
                        bins[k] < score /\ score <= bins[k + 1]]
         ELSE NaN

\* pd.cut raises unless the bin edges increase strictly
BinsIncrease(bins) == \A k \in 1..(Len(bins) - 1) : bins[k] < bins[k + 1]

\* main() of 04_bucketize.py on the score file: what it raises or writes
Bucketize(file, t1, t2) ==
    IF ~file.exists
    THEN [ok |-> FALSE, error |-> "FileNotFoundError", out |-> NoFile]
    ELSE IF ~("score" \in Range(file.cols) /\ "externalcustomerkey" \in Range(file.cols))
    THEN [ok |-> FALSE, error |-> "Input must contain columns", out |-> NoFile]
    ELSE LET bins == <<0, t1, t2, One>>
         IN  IF ~BinsIncrease(bins)
             THEN [ok |-> FALSE, error |-> "bins must increase monotonically",
                   out |-> NoFile]
             ELSE [ok |-> TRUE, error |-> "",
                   out |-> [exists |-> TRUE,
                            cols |-> Append(file.cols, "segment"),
                            rows |-> [i \in DOMAIN file.rows |->
                                [externalcustomerkey |-> file.rows[i].externalcustomerkey,
                                 score |-> file.rows[i].score,
                                 segment |-> Cut(file.rows[i].score, bins,
                                                 SEGMENT_LABELS)]]]]

(***************************************************************************)
(* The scripts as commands on the artifact files.                          *)
(***************************************************************************)
\* python scripts/01_prepare_data.py --input b --country_min_share min_share
PrepareCmd(b, min_share) ==
    LET r == PrepareData(b, min_share)
    IN  /\ input' = b
        /\ last_script' = "01_prepare_data"
        /\ df_labelled' = r.labelled
        /\ clean' = IF r.ok THEN r.clean ELSE clean
        /\ metadata' = IF r.ok THEN r.metadata ELSE metadata
        /\ exit_code' = IF r.ok THEN 0 ELSE 1
        /\ error' = r.error
        /\ UNCHANGED <<model, trained_contract, scores, bucketized, matrix, seg_args,
                       predicted>>

\* TrainCmd that saves a model file before it checks its inputs
TrainCmdSavingFirst ==
    LET r == TrainModel(clean, metadata)
    IN  /\ last_script' = "02_train_model"
        /\ model' = IF r.ok THEN r.model ELSE [exists |-> TRUE, feature_name |-> <<>>]
        /\ trained_contract' = IF r.ok THEN metadata ELSE trained_contract
        /\ exit_code' = IF r.ok THEN 0 ELSE 1
        /\ error' = r.error
        /\ UNCHANGED <<input, clean, metadata, df_labelled, scores, bucketized, matrix,
                       seg_args, predicted>>

\* python scripts/02_train_model.py
TrainCmd ==
    LET r == TrainModel(clean, metadata)
    IN  /\ last_script' = "02_train_model"
        /\ model' = IF r.ok THEN r.model ELSE model
        /\ trained_contract' = IF r.ok THEN metadata ELSE trained_contract
        /\ exit_code' = IF r.ok THEN 0 ELSE 1
        /\ error' = r.error
        /\ UNCHANGED <<input, clean, metadata, df_labelled, scores, bucketized, matrix,
                       seg_args, predicted>>

\* the scores model.predict may return for one row
PredictVals == {2000000, 9000000}

\* model.predict(df) raises unless df has as many columns as the model has
\* features (LightGBM's shape check); it does not compare the names
PredictRaises(mdl, m) == Len(m.cols) # Len(mdl.feature_name)

\* python scripts/03_score.py --input b; model.predict is opaque: any
\* score of PredictVals for each row of the matrix.  pd.DataFrame raises
\* when the identifiers and the scores differ in length.
ScoreCmd(b) ==
    LET r == ScoreData(b, metadata, model)
        predicts == r.ok /\ ~PredictRaises(model, r.matrix)
        rows == IF r.ok THEN DOMAIN r.matrix.rows ELSE {}
    IN  /\ input' = b
        /\ last_script' = "03_score"
        /\ matrix' = r.matrix
        /\ \E p \in [rows -> PredictVals] :
              LET ok == predicts /\ Len(p) = Len(r.ids)
              IN  /\ predicted' = IF predicts THEN p ELSE <<>>
                  /\ scores' = IF ok
                                THEN [exists |-> TRUE,
                                      cols |-> <<"externalcustomerkey", "score">>,
                                      rows |-> [i \in DOMAIN r.ids |->
                                                  [externalcustomerkey |-> r.ids[i],
                                                   score |-> p[i]]]]
                                ELSE scores
                  /\ exit_code' = IF ok THEN 0 ELSE 1
                  /\ error' = IF ~r.ok THEN r.error
                               ELSE IF ~predicts THEN "LightGBMError"
                               ELSE IF ~ok THEN "ValueError" ELSE ""
        /\ UNCHANGED <<clean, metadata, model, trained_contract, df_labelled, bucketized,
                       seg_args>>

\* python scripts/04_bucketize.py --scores data/scores.csv --t1 t1 --t2 t2
BucketizeCmd(t1, t2) ==
    LET r == Bucketize(scores, t1, t2)
    IN  /\ last_script' = "04_bucketize"
        /\ seg_args' = <<t1, t2>>
        /\ bucketized' = IF r.ok THEN r.out ELSE bucketized
        /\ exit_code' = IF r.ok THEN 0 ELSE 1
        /\ error' = r.error
        /\ UNCHANGED <<input, clean, metadata, model, trained_contract, scores,
                       df_labelled, matrix, predicted>>

(***************************************************************************)
(* run_all.py                                                              *)
(***************************************************************************)
\* argparse default of --country_min_share: 0.01
DefaultMinShare == [num |-> 1, den |-> 100]
\* SEGMENT_THRESHOLDS = [0.0, 0.2, 0.6, 1.0]
SEGMENT_THRESHOLDS == <<0, 2000000, 6000000, One>>

\* run(cmd) that goes on to `next` whatever the stage returned
AfterRunIgnoringStatus(next) ==
    /\ run_log' = Append(run_log, [stage |-> last_script', returncode |-> exit_code'])
    /\ pc' = next
    /\ status' = IF next = "finished" THEN 0 ELSE status

\* run(cmd): sys.exit(returncode) when the stage failed, else go on to
\* `next`; after the last stage main prints the success message and
\* returns (exit status 0)
AfterRun(next) ==
    /\ run_log' = Append(run_log, [stage |-> last_script', returncode |-> exit_code'])
    /\ pc' = IF exit_code' # 0 THEN "aborted" ELSE next
    /\ status' = IF exit_code' # 0 THEN exit_code'
                  ELSE IF next = "finished" THEN 0 ELSE status

\* python run_all.py --input b [--skip-train]
RunAllStart(b, skip) ==
    /\ pc \in {"idle", "finished", "aborted"}
    /\ ncmd < MaxCmds
    /\ ncmd' = ncmd + 1
    /\ pc' = "prepare"
    /\ input' = b
    /\ skip_train' = skip
    /\ run_log' = <<>>
    /\ status' = -1
    /\ UNCHANGED <<clean, metadata, model, trained_contract, scores, bucketized,
                   df_labelled, matrix, last_script, exit_code, error, seg_args,
                   predicted>>

RunPrepare ==
    /\ pc = "prepare"
    /\ PrepareCmd(input, DefaultMinShare)
    /\ AfterRun(IF skip_train THEN "score" ELSE "train")
    /\ UNCHANGED <<skip_train, ncmd>>

RunTrain ==
    /\ pc = "train"
    /\ TrainCmd
    /\ AfterRun("score")
    /\ UNCHANGED <<skip_train, ncmd>>

RunScore ==
    /\ pc = "score"
    /\ ScoreCmd(input)
    /\ AfterRun("bucketize")
    /\ UNCHANGED <<skip_train, ncmd>>

RunBucketize ==
    /\ pc = "bucketize"
    /\ BucketizeCmd(SEGMENT_THRESHOLDS[2], SEGMENT_THRESHOLDS[3])
    /\ AfterRun("finished")
    /\ UNCHANGED <<skip_train, ncmd>>

(***************************************************************************)
(* Raw batches.                                                            *)
(***************************************************************************)
\* the cell of column c in row i unless a batch says otherwise
Default(c, i) ==
    CASE c = "externalcustomerkey" -> "c" \o ToString(i)
      [] c = "as_of_date" -> "2024-01-01"
      [] c = "first_order_date" -> IF i = 1 THEN "n/a" ELSE "2024-02-01"
      [] c = "country" -> "DE"
      [] c = "gender" -> "f"
      [] c = "registration_flag" -> "1"
      [] c = "shops_included" -> "1"
      [] c = "orders_30d" -> IF i = 1 THEN NaN ELSE "1"
      [] c = "visits_3m" -> "7"
      [] c = "note_12m" -> "abc"
      [] c = "total_spend" -> "7"
      [] c = "share_of_orders_with_discount" -> "0"
      [] c = "discount_abs_lifetime_eur" -> "0"
      [] c = "avg_discount_per_order" -> IF i = 1 THEN NaN ELSE "0.5"
      [] c = "max_discount_single_order" -> "1"
      [] OTHER -> "0"

BaseCols == <<"externalcustomerkey", "as_of_date", "country", "gender",
              "registration_flag", "orders_30d", "total_spend",
              "share_of_orders_with_discount", "discount_abs_lifetime_eur",
              "avg_discount_per_order">>

ExtraCols == <<"first_order_date", "shops_included", "visits_3m", "note_12m",
               "max_discount_single_order">>

\* a CSV with the columns cols and n rows; over[i] gives the cells of row i
\* that differ from Default
MkBatch(cols, n, over) ==
    [exists |-> TRUE,
     cols |-> cols,
     rows |-> [i \in 1..n |->
                 [c \in Range(cols) |->
                     IF c \in DOMAIN over[i] THEN over[i][c] ELSE Default(c, i)]]]

\* the batches of at most maxn rows over BaseCols whose rows vary as V says
Variations(V, maxn) ==
    UNION {{MkBatch(BaseCols, n, f) : f \in [1..n -> V]} : n \in 0..maxn}

\* the two-row batches whose columns are cols less a subset of optional
SchemaBatches(cols, optional) ==
    {MkBatch(SelectSeq(cols, LAMBDA c : c \notin omit), 2, [i \in 1..2 |-> <<>>]) :
        omit \in SUBSET optional}

TargetVariants ==
    {("share_of_orders_with_discount" :> s) @@ ("discount_abs_lifetime_eur" :> d) :
        s \in {NaN, "0", "0.5", "-1"}, d \in {NaN, "0", "10"}}

CountryVariants == {("country" :> v) : v \in {"DE", "FR", "XX", NaN}}

PruneVariants ==
    {("registration_flag" :> f) @@ ("total_spend" :> t) :
        f \in {"0", "1"}, t \in {"7", "1", NaN}}

MinShares == {DefaultMinShare, [num |-> 1, den |-> 2]}

\* the inputs of the builder run alone: <<batch, country_min_share>>
BuildInputs ==
    ((Variations(TargetVariants, MaxRows) \cup Variations(PruneVariants, MaxRows)
      \cup SchemaBatches(BaseCols \o ExtraCols,
                         {"externalcustomerkey", "country", "gender", "first_order_date",
                          "share_of_orders_with_discount", "discount_abs_lifetime_eur",
                          "registration_flag", "shops_included", "visits_3m", "note_12m"}))
     \X {DefaultMinShare})
    \cup (Variations(CountryVariants, MaxRows) \X MinShares)

\* the batches given to the scorer and to run_all
SmallBatches ==
    Variations({("country" :> v) : v \in {"DE", "IT", NaN}}, MaxScoreRows)
    \cup Variations({("registration_flag" :> f) : f \in {"0", "1"}}, MaxScoreRows)
    \cup SchemaBatches(BaseCols \o <<"note_12m">>,
                       {"externalcustomerkey", "country", "total_spend", "note_12m"})

\* contracts written by hand or by another training run
Contracts ==
    {[exists |-> TRUE, country_min_share |-> DefaultMinShare, major_countries |-> m,
      feature_columns |-> f, target_column |-> TARGET_COLUMN] :
        m \in {<<>>, <<"DE", "FR">>},
        f \in {<<>>,
               <<"country_OTHER", "total_spend">>,
               <<"total_spend", "never_seen", "country_DE", "country_IT">>,
               <<"registration_flag", "externalcustomerkey", "orders_30d", "note_12m">>}}

\* contract files the scorer cannot use: no JSON, or a field is absent
BrokenContracts ==
    {Garbled,
     [exists |-> TRUE, country_min_share |-> DefaultMinShare,
      feature_columns |-> <<"total_spend">>, target_column |-> TARGET_COLUMN],
     [exists |-> TRUE, country_min_share |-> DefaultMinShare,
      major_countries |-> <<"DE">>, target_column |-> TARGET_COLUMN]}

\* the batches given to run_all in SpecRun
RunBatches == SchemaBatches(BaseCols, {"externalcustomerkey", "country", "total_spend"})

\* the batches given to the builder and to the scorer in SpecTrain
StageBatches ==
    SchemaBatches(BaseCols \o <<"note_12m">>,
                  {"externalcustomerkey", "country", "note_12m",
                   "share_of_orders_with_discount"})

\* clean tables left by an earlier build
CleanTables ==
    {[exists |-> TRUE, cols |-> c,
      rows |-> [i \in 1..2 |-> [k \in Range(c) |-> IF i = 1 THEN "1" ELSE "0"]]] :
        c \in {<<"total_spend", "orders_30d", "country_DE", "y_discount_sensitive">>,
               <<"total_spend", "orders_30d", "country_DE">>}}

\* contract files the trainer may find next to the clean table
TrainContracts ==
    {[exists |-> TRUE, country_min_share |-> DefaultMinShare, major_countries |-> <<"DE">>,
      feature_columns |-> f, target_column |-> TARGET_COLUMN] :
        f \in {<<"total_spend", "orders_30d", "country_DE">>,
               <<"orders_30d", "total_spend", "country_DE">>,
               <<"total_spend">>,
               <<"total_spend", "note_12m">>,
               <<"total_spend", "orders_30d", "country_DE", "country_OTHER">>}}
    \cup BrokenContracts \cup {NoFile}

(***************************************************************************)
(* Specifications.                                                         *)
(***************************************************************************)
InitEmpty ==
    /\ input = NoFile
    /\ clean = NoFile
    /\ metadata = NoFile
    /\ model = NoFile
    /\ trained_contract = NoFile
    /\ scores = NoFile
    /\ bucketized = NoFile
    /\ df_labelled = NoFile
    /\ matrix = NoFile
    /\ pc = "idle"
    /\ skip_train = FALSE
    /\ last_script = "none"
    /\ exit_code = -1
    /\ error = ""
    /\ seg_args = <<>>
    /\ ncmd = 0
    /\ predicted = <<>>
    /\ run_log = <<>>
    /\ status = -1

\* Spec: sequences of run_all invocations
Init == InitEmpty

Next ==
    \/ \E b \in SmallBatches, skip \in BOOLEAN : RunAllStart(b, skip)
    \/ RunPrepare
    \/ RunTrain
    \/ RunScore
    \/ RunBucketize

Spec == Init /\ [][Next]_vars

\* SpecBuild: the builder run once, alone, on any input
BuildOnce(b, min_share) ==
    /\ last_script = "none"
    /\ PrepareCmd(b, min_share)
    /\ UNCHANGED <<pc, skip_train, ncmd, run_log, status>>

NextBuild == \E in \in BuildInputs : BuildOnce(in[1], in[2])

SpecBuild == InitEmpty /\ [][NextBuild]_vars

\* SpecScore: the scorer run directly, on any batch, under a contract and a
\* model that are already installed or that the builder and the trainer
\* produce from another batch
InitScore ==
    /\ input = NoFile
    /\ clean = NoFile
    /\ \/ metadata = NoFile /\ model = NoFile /\ trained_contract = NoFile
       \/ \E c \in Contracts :
             /\ metadata = c
             /\ model = [exists |-> TRUE, feature_name |-> c.feature_columns]
             /\ trained_contract = c
       \/ \E c \in BrokenContracts, m \in {NoFile, [exists |-> TRUE, feature_name |-> <<>>]} :
             /\ metadata = c
             /\ model = m
             /\ trained_contract = NoFile
    /\ scores = NoFile
    /\ bucketized = NoFile
    /\ df_labelled = NoFile
    /\ matrix = NoFile
    /\ pc = "idle"
    /\ skip_train = FALSE
    /\ last_script = "none"
    /\ exit_code = -1
    /\ error = ""
    /\ seg_args = <<>>
    /\ ncmd = 0
    /\ predicted = <<>>
    /\ run_log = <<>>
    /\ status = -1

ScorePrepare(b, min_share) ==
    /\ last_script = "none"
    /\ ~metadata.exists
    /\ PrepareCmd(b, min_share)
    /\ UNCHANGED <<pc, skip_train, ncmd, run_log, status>>

ScoreTrain ==
    /\ last_script = "01_prepare_data"
    /\ TrainCmd
    /\ UNCHANGED <<pc, skip_train, ncmd, run_log, status>>

ScoreDirect(b) ==
    /\ last_script # "03_score"
    /\ ScoreCmd(b)
    /\ UNCHANGED <<pc, skip_train, ncmd, run_log, status>>

NextScore ==
    \/ \E b \in SmallBatches, s \in MinShares : ScorePrepare(b, s)
    \/ ScoreTrain
    \/ \E b \in SmallBatches : ScoreDirect(b)

SpecScore == InitScore /\ [][NextScore]_vars

\* SpecSeg: the segmenter run once, alone, on any score table and thresholds
Thresholds == {1, SEGMENT_THRESHOLDS[2], SEGMENT_THRESHOLDS[3], One - 1}

SegScores ==
    {0 - 1, 0, One, One + 1} \cup UNION {{t - 1, t, t + 1} : t \in Thresholds}

ScoreTables ==
    UNION {{[exists |-> TRUE,
             cols |-> <<"externalcustomerkey", "score">>,
             rows |-> [i \in 1..n |->
                         [externalcustomerkey |-> Default("externalcustomerkey", i),
                          score |-> f[i]]]] :
               f \in [1..n -> SegScores]} : n \in 0..MaxSegRows}

InitSeg ==
    /\ input = NoFile
    /\ clean = NoFile
    /\ metadata = NoFile
    /\ model = NoFile
    /\ trained_contract = NoFile
    /\ scores \in ScoreTables
    /\ bucketized = NoFile
    /\ df_labelled = NoFile
    /\ matrix = NoFile
    /\ pc = "idle"
    /\ skip_train = FALSE
    /\ last_script = "none"
    /\ exit_code = -1
    /\ error = ""
    /\ seg_args = <<>>
    /\ ncmd = 0
    /\ predicted = <<>>
    /\ run_log = <<>>
    /\ status = -1

SegOnce(t1, t2) ==
    /\ last_script = "none"
    /\ BucketizeCmd(t1, t2)
    /\ UNCHANGED <<pc, skip_train, ncmd, run_log, status>>

NextSeg == \E t1 \in Thresholds, t2 \in Thresholds : SegOnce(t1, t2)

SpecSeg == InitSeg /\ [][NextSeg]_vars

\* SpecTrain: the stages run by hand, builder (optional), trainer, scorer,
\* on the clean table and the contract file an earlier run left behind
InitTrain ==
    /\ input = NoFile
    /\ clean \in CleanTables \cup {NoFile}
    /\ metadata \in TrainContracts
    /\ model \in {NoFile, [exists |-> TRUE, feature_name |-> <<"total_spend">>]}
    /\ trained_contract = NoFile
    /\ scores \in {NoFile, [exists |-> TRUE, cols |-> <<"externalcustomerkey", "score">>,
                             rows |-> <<>>]}
    /\ bucketized = NoFile
    /\ df_labelled = NoFile
    /\ matrix = NoFile
    /\ pc = "idle"
    /\ skip_train = FALSE
    /\ last_script = "none"
    /\ exit_code = -1
    /\ error = ""
    /\ seg_args = <<>>
    /\ ncmd = 0
    /\ predicted = <<>>
    /\ run_log = <<>>
    /\ status = -1

TrainPrepare(b) ==
    /\ last_script = "none"
    /\ PrepareCmd(b, DefaultMinShare)
    /\ UNCHANGED <<pc, skip_train, ncmd, run_log, status>>

TrainOnce ==
    /\ last_script \in {"none", "01_prepare_data"}
    /\ TrainCmd
    /\ UNCHANGED <<pc, skip_train, ncmd, run_log, status>>

TrainScore(b) ==
    /\ last_script = "02_train_model"
    /\ ScoreCmd(b)
    /\ UNCHANGED <<pc, skip_train, ncmd, run_log, status>>

NextTrain ==
    \/ \E b \in StageBatches : TrainPrepare(b)
    \/ TrainOnce
    \/ \E b \in StageBatches : TrainScore(b)

SpecTrain == InitTrain /\ [][NextTrain]_vars

\* SpecRun: sequences of run_all invocations on the batches of RunBatches
NextRun ==
    \/ \E b \in RunBatches, skip \in BOOLEAN : RunAllStart(b, skip)
    \/ RunPrepare
    \/ RunTrain
    \/ RunScore
    \/ RunBucketize

SpecRun == Init /\ [][NextRun]_vars

(***************************************************************************)
(* Properties.                                                             *)
(***************************************************************************)
\* the texts of the model that hold a number greater than zero
PositiveText == {"0.5", "1", "7", "10"}

\* column c is in the file and is not missing in every row
LiveColumn(file, c) ==
    c \in Range(file.cols) /\ \E i \in DOMAIN file.rows : file.rows[i][c] # NaN

\* the number of rows of the file whose country is v
RowsOfCountry(file, v) ==
    Cardinality({i \in DOMAIN file.rows : file.rows[i]["country"] = v})

\* C1: when the builder derives the target (both source columns are in the
\* batch, neither missing in every row), y_discount_sensitive of every row
\* is 1 iff share_of_orders_with_discount > 0 or discount_abs_lifetime_eur
\* > 0 of that raw row (missing is not > 0); the two source columns are
\* still in the frame when the target is derived, and are gone from the
\* clean table, which carries the target.
C1_TargetCorrect ==
    last_script = "01_prepare_data" =>
        /\ (LiveColumn(input, "share_of_orders_with_discount")
            /\ LiveColumn(input, "discount_abs_lifetime_eur")) => df_labelled.exists
        /\ df_labelled.exists =>
            /\ {"share_of_orders_with_discount", "discount_abs_lifetime_eur",
                "y_discount_sensitive"} \subseteq Range(df_labelled.cols)
            /\ Len(df_labelled.rows) = Len(input.rows)
            /\ \A i \in DOMAIN input.rows :
                  /\ df_labelled.rows[i]["y_discount_sensitive"] \in {"0", "1"}
                  /\ df_labelled.rows[i]["y_discount_sensitive"] = "1"
                     <=> \/ input.rows[i]["share_of_orders_with_discount"] \in PositiveText
                         \/ input.rows[i]["discount_abs_lifetime_eur"] \in PositiveText
        /\ exit_code = 0 =>
            /\ "y_discount_sensitive" \in Range(clean.cols)
            /\ "share_of_orders_with_discount" \notin Range(clean.cols)
            /\ "discount_abs_lifetime_eur" \notin Range(clean.cols)

\* a build that succeeded on a batch with a row labelled 1 by its discount
\* amount alone (share missing) and a row labelled 0 (amount missing)
C1_Witness ==
    /\ last_script = "01_prepare_data" /\ exit_code = 0 /\ df_labelled.exists
    /\ \E i, j \in DOMAIN input.rows :
          /\ input.rows[i]["share_of_orders_with_discount"] = NaN
          /\ input.rows[i]["discount_abs_lifetime_eur"] = "10"
          /\ df_labelled.rows[i]["y_discount_sensitive"] = "1"
          /\ input.rows[j]["share_of_orders_with_discount"] = "-1"
          /\ input.rows[j]["discount_abs_lifetime_eur"] = NaN
          /\ df_labelled.rows[j]["y_discount_sensitive"] = "0"

\* C2: after a successful scoring run under a contract the builder wrote,
\* every row whose country is not in major_countries has country_OTHER = 1
\* and every country_<major> = 0 in the matrix, and the matrix has no
\* column country_<v> for a v outside the contract's vocabulary.
C2_UnseenCountryToOther ==
    (last_script = "03_score" /\ exit_code = 0 /\ clean.exists) =>
        /\ \A i \in DOMAIN input.rows :
              input.rows[i]["country"] \notin Range(metadata.major_countries) =>
                 /\ "country_OTHER" \in Range(matrix.cols)
                 /\ matrix.rows[i]["country_OTHER"] = "1"
                 /\ \A m \in Range(metadata.major_countries) :
                       ("country_" \o m) \in Range(matrix.cols)
                          => matrix.rows[i]["country_" \o m] = "0"
        /\ \A v \in Range(CountryOrder) \ (Range(metadata.major_countries) \cup {"OTHER"}) :
              ("country_" \o v) \notin Range(matrix.cols)

\* the columns of the table the scorer has replayed, before reconciliation
ReplayedCols ==
    Range(ScoreEncode(ScoreLoad(ReadCsv(input)), metadata.major_countries).cols)

\* C3: whenever the scorer hands a matrix to the model the matrix has
\* the columns of feature_columns, in that order, and one row per input
\* row; a feature column absent from the replayed table is all zero, and
\* no other column is in the matrix.
C3_MatrixMatchesContract ==
    /\ (last_script = "03_score" /\ exit_code = 0) => matrix.exists
    /\ (last_script = "03_score" /\ matrix.exists) =>
        /\ matrix.cols = metadata.feature_columns
        /\ Len(matrix.cols) = Len(metadata.feature_columns)
        /\ Len(matrix.rows) = Len(input.rows)
        /\ \A i \in DOMAIN matrix.rows :
              /\ DOMAIN matrix.rows[i] = Range(metadata.feature_columns)
              /\ \A c \in Range(metadata.feature_columns) :
                    c \notin ReplayedCols => matrix.rows[i][c] = "0"

\* a successful scoring run in which a feature column was synthesized and a
\* replayed column was dropped
C3_Witness ==
    /\ last_script = "03_score" /\ exit_code = 0 /\ matrix.exists
    /\ Len(metadata.feature_columns) >= 2
    /\ Len(input.rows) >= 1
    /\ \E c \in Range(metadata.feature_columns) : c \notin ReplayedCols
    /\ \E c \in ReplayedCols : c \notin Range(metadata.feature_columns)

\* C4: whenever the scorer has scored a batch, the major_countries and
\* feature_columns of the contract it read are those the contract file
\* held when the model it used was trained.
C4_ScorerReadsTrainingContract ==
    (last_script = "03_score" /\ exit_code = 0) =>
        /\ trained_contract.exists
        /\ metadata.major_countries = trained_contract.major_countries
        /\ metadata.feature_columns = trained_contract.feature_columns

\* C5: when the contract and the clean table are those the builder makes
\* from the batch being scored, and the builder dropped no row, the matrix
\* equals the feature columns of the clean table, cell by cell.
C5_ScoreReplaysBuild ==
    (/\ last_script = "03_score" /\ exit_code = 0 /\ clean.exists
     /\ LET r == PrepareData(input, metadata.country_min_share)
        IN  r.ok /\ r.clean = clean /\ r.metadata = metadata
     /\ Len(clean.rows) = Len(input.rows)) =>
        /\ matrix.cols = FeatureColumns(clean)
        /\ \A i \in DOMAIN matrix.rows :
              \A c \in Range(matrix.cols) : matrix.rows[i][c] = clean.rows[i][c]

\* C6: for thresholds 0 < t1 < t2 < 1 the segmenter succeeds and labels
\* every score of [0, 1]: full_price on [0, t1], conditional on (t1, t2],
\* discount_driven on (t2, 1]; with (0.2, 0.6) the scores 0.0, 0.2,
\* 0.2000001, 0.6, 0.6000001, 1.0 get full_price, full_price, conditional,
\* conditional, discount_driven, discount_driven.
C6_SegmentPartition ==
    last_script = "04_bucketize" =>
        LET t1 == seg_args[1]
            t2 == seg_args[2]
        IN  /\ (0 < t1 /\ t1 < t2 /\ t2 < One) => exit_code = 0
            /\ exit_code = 0 =>
                /\ Len(bucketized.rows) = Len(scores.rows)
                /\ \A i \in DOMAIN scores.rows :
                      LET s == scores.rows[i].score
                          label == bucketized.rows[i].segment
                      IN  /\ bucketized.rows[i].score = s
                          /\ (0 <= s /\ s <= t1) => label = "full_price"
                          /\ (t1 < s /\ s <= t2) => label = "conditional"
                          /\ (t2 < s /\ s <= One) => label = "discount_driven"
                          /\ (t1 = 2000000 /\ t2 = 6000000) =>
                                /\ s \in {0, 2000000} => label = "full_price"
                                /\ s \in {2000001, 6000000} => label = "conditional"
                                /\ s \in {6000001, 10000000} => label = "discount_driven"

\* a run with the default thresholds on the scores 0.2 and 0.2000001
C6_Witness ==
    /\ last_script = "04_bucketize" /\ exit_code = 0
    /\ seg_args = <<2000000, 6000000>>
    /\ Len(bucketized.rows) = 2
    /\ bucketized.rows[1].score = 2000000 /\ bucketized.rows[1].segment = "full_price"
    /\ bucketized.rows[2].score = 2000001 /\ bucketized.rows[2].segment = "conditional"

\* C7: when the score table holds a score below 0 or above 1 the segmenter
\* exits non-zero and writes no segmented output.
C7_OutOfRangeIsFatal ==
    (/\ last_script = "04_bucketize"
     /\ \E i \in DOMAIN scores.rows :
           scores.rows[i].score < 0 \/ scores.rows[i].score > One) =>
        exit_code # 0 /\ ~bucketized.exists

\* C8: feature_columns of a contract the builder wrote holds no leakage
\* column, nor the target, the identifier or a date column.
C8_NoLeakageInFeatures ==
    (last_script = "01_prepare_data" /\ exit_code = 0) =>
        /\ metadata.exists
        /\ Range(metadata.feature_columns)
             \cap {"discount_abs_lifetime_eur", "discount_rate_lifetime",
                   "share_of_orders_with_discount", "share_of_items_discounted",
                   "avg_discount_per_order", "max_discount_single_order",
                   "y_discount_sensitive", "externalcustomerkey",
                   "as_of_date", "first_order_date", "last_order_date"} = {}
        /\ metadata.feature_columns = SelectSeq(clean.cols,
                                                LAMBDA c : c # "y_discount_sensitive")

\* a build that succeeded on a batch holding leakage columns besides the
\* two sources, the identifier and two date columns
C8_Witness ==
    /\ last_script = "01_prepare_data" /\ exit_code = 0
    /\ LiveColumn(input, "max_discount_single_order")
    /\ LiveColumn(input, "avg_discount_per_order")
    /\ LiveColumn(input, "externalcustomerkey")
    /\ LiveColumn(input, "as_of_date")
    /\ LiveColumn(input, "first_order_date")
    /\ metadata.feature_columns # <<>>

\* C9: a country is in major_countries iff its number of rows divided by
\* the number of all rows of the batch (missing countries included) is at
\* least country_min_share.
C9_ShareOfAllRows ==
    (last_script = "01_prepare_data" /\ exit_code = 0) =>
        \A v \in Range(CountryOrder) :
            v \in Range(metadata.major_countries)
            <=> RowsOfCountry(input, v) * metadata.country_min_share.den
                   >= metadata.country_min_share.num * Len(input.rows)

\* C10: feature_columns of a contract the builder wrote holds none of
\* gender, shops_included, registration_flag, and no column of the batch
\* that has exactly one distinct value.
C10_PrunedFields ==
    (last_script = "01_prepare_data" /\ exit_code = 0) =>
        \A c \in Range(metadata.feature_columns) :
            /\ c \notin {"gender", "shops_included", "registration_flag"}
            /\ c \in Range(input.cols) =>
                  Cardinality({input.rows[i][c] : i \in DOMAIN input.rows}) # 1

\* C11: when the batch given to the builder or to the scorer lacks the
\* externalcustomerkey column or the country column, the stage exits
\* non-zero with an error and leaves no clean table, no contract and no
\* score output.
C11_MissingIdOrCountryFatal ==
    LET lacking == \/ "externalcustomerkey" \notin Range(input.cols)
                   \/ "country" \notin Range(input.cols)
    IN  /\ (last_script = "01_prepare_data" /\ lacking) =>
              /\ exit_code # 0 /\ error # ""
              /\ ~clean.exists /\ ~metadata.exists
        /\ (last_script = "03_score" /\ lacking) =>
              /\ exit_code # 0 /\ error # ""
              /\ ~scores.exists

\* C12: a run of the builder, the trainer or the scorer that ends with a
\* non-zero status leaves the output artifacts of that stage as they were
\* before the run: the builder the clean table and the contract, the
\* trainer the model, the scorer the score file.
C12_NoWriteOnFailure ==
    [][exit_code' # 0 =>
         /\ last_script' = "01_prepare_data" => UNCHANGED <<clean, metadata>>
         /\ last_script' = "02_train_model" => UNCHANGED model
         /\ last_script' = "03_score" => UNCHANGED scores]_vars

\* the trainer failed on the contract's columns and the scorer then failed
\* on a non-numeric column, with a model, a contract and a score file of
\* an earlier run in place
C12_Witness ==
    /\ last_script = "03_score" /\ exit_code # 0
    /\ error = "Non-numeric columns remain"
    /\ trained_contract = NoFile
    /\ clean.exists /\ metadata.exists /\ model.exists
    /\ scores.exists /\ scores.rows = <<>>

\* C16: when the clean table holds the target and the contract file holds
\* feature_columns, a training run that succeeds has fitted the model on
\* the contract's feature_columns, in that order, and a training run
\* fails when the contract's feature_columns is not the list of the
\* non-target columns of the clean table.
C16_StaleContractDetected ==
    (/\ last_script = "02_train_model"
     /\ clean.exists /\ "y_discount_sensitive" \in Range(clean.cols)
     /\ metadata.exists /\ "feature_columns" \in DOMAIN metadata) =>
        /\ exit_code = 0 => model.feature_name = metadata.feature_columns
        /\ metadata.feature_columns
              # SelectSeq(clean.cols, LAMBDA c : c # "y_discount_sensitive")
           => exit_code # 0

\* C13: the matrix the scorer builds has one row per row of the batch, in
\* the order of the batch (row i carries the country of input row i), and
\* a successful run writes one (externalcustomerkey, score) row per input
\* row: row i holds the identifier of input row i and the score the
\* model returned for row i of the matrix.
C13_OneScoreRowPerInputRow ==
    last_script = "03_score" =>
        /\ matrix.exists =>
              /\ Len(matrix.rows) = Len(input.rows)
              /\ \A i \in DOMAIN matrix.rows :
                    \A m \in Range(metadata.major_countries) :
                       ("country_" \o m) \in Range(matrix.cols) =>
                          (matrix.rows[i]["country_" \o m] = "1"
                              <=> input.rows[i]["country"] = m)
        /\ exit_code = 0 =>
              /\ scores.cols = <<"externalcustomerkey", "score">>
              /\ Len(scores.rows) = Len(input.rows)
              /\ Len(predicted) = Len(matrix.rows)
              /\ \A i \in DOMAIN input.rows :
                    /\ scores.rows[i].externalcustomerkey
                          = input.rows[i]["externalcustomerkey"]
                    /\ scores.rows[i].score = predicted[i]

\* a successful run on two rows, the first with a major country and the
\* second with a missing one, that got different scores
C13_Witness ==
    /\ last_script = "03_score" /\ exit_code = 0
    /\ Len(input.rows) = 2
    /\ input.rows[1]["country"] = "DE" /\ input.rows[2]["country"] = NaN
    /\ "country_DE" \in Range(matrix.cols)
    /\ predicted[1] # predicted[2]
    /\ scores.rows[1].score = predicted[1] /\ scores.rows[2].score = predicted[2]

\* C14: when the contract file is missing, is no JSON, or lacks
\* major_countries or feature_columns, the scorer exits non-zero with the
\* error of reading the contract (whatever the state of the model file and
\* of the batch), builds no matrix, predicts nothing and writes no score
\* file.
C14_NoFallbackContract ==
    (/\ last_script = "03_score"
     /\ \/ ~metadata.exists
        \/ "garbled" \in DOMAIN metadata
        \/ "major_countries" \notin DOMAIN metadata
        \/ "feature_columns" \notin DOMAIN metadata) =>
        /\ exit_code # 0
        /\ error \in {"Metadata not found", "JSONDecodeError", "KeyError"}
        /\ ~matrix.exists
        /\ predicted = <<>>
        /\ ~scores.exists

\* the scorer ran under a contract without major_countries, with a model
\* in place and a batch that has the identifier and the country
C14_Witness ==
    /\ last_script = "03_score" /\ exit_code # 0 /\ error = "KeyError"
    /\ metadata.exists /\ "feature_columns" \in DOMAIN metadata
    /\ "major_countries" \notin DOMAIN metadata
    /\ model.exists
    /\ {"externalcustomerkey", "country"} \subseteq Range(input.cols)
    /\ Len(input.rows) = 2

\* C15: the clean table of a successful build has no country column, has
\* the column country_<c> for every c of major_countries and the column
\* country_OTHER, and (when no row was dropped) each row has 1 in
\* country_<c> if its country c is major, in country_OTHER otherwise, and
\* 0 in the other indicators; rows DE, XX, DE with country_min_share 0.5
\* give major_countries = [DE] and (country_DE, country_OTHER) = (1,0),
\* (0,1), (1,0).
C15_OneHotCountry ==
    (last_script = "01_prepare_data" /\ exit_code = 0) =>
        LET major == Range(metadata.major_countries)
            indicators == {"country_" \o m : m \in major} \cup {"country_OTHER"}
        IN  /\ "country" \notin Range(clean.cols)
            /\ indicators \subseteq Range(clean.cols)
            /\ Len(clean.rows) = Len(input.rows) =>
                  \A i \in DOMAIN clean.rows :
                     LET c == input.rows[i]["country"]
                         own == IF c \in major THEN "country_" \o c ELSE "country_OTHER"
                     IN  \A k \in indicators :
                            clean.rows[i][k] = IF k = own THEN "1" ELSE "0"
            /\ (/\ Len(input.rows) = 3
                /\ [i \in 1..3 |-> input.rows[i]["country"]] = <<"DE", "XX", "DE">>
                /\ metadata.country_min_share = [num |-> 1, den |-> 2]) =>
                  /\ metadata.major_countries = <<"DE">>
                  /\ [i \in 1..3 |-> <<clean.rows[i]["country_DE"],
                                        clean.rows[i]["country_OTHER"]>>]
                        = <<(<<"1", "0">>), (<<"0", "1">>), (<<"1", "0">>)>>

\* C17: in every invocation of run_all the stages run so far are an
\* initial part of prepare, train (left out under --skip-train), score,
\* bucketize; every stage but the last one run returned zero; when the
\* last one returned non-zero run_all has exited with that status and
\* runs nothing more; and run_all ends with the success message (status
\* 0) only after all its stages have run and returned zero.
C17_StageOrder ==
    LET expected == IF skip_train
                    THEN <<"01_prepare_data", "03_score", "04_bucketize">>
                    ELSE <<"01_prepare_data", "02_train_model", "03_score", "04_bucketize">>
        n == Len(run_log)
    IN  /\ n <= Len(expected)
        /\ \A k \in 1..n : run_log[k].stage = expected[k]
        /\ \A k \in 1..(n - 1) : run_log[k].returncode = 0
        /\ (n > 0 /\ run_log[n].returncode # 0) =>
              pc = "aborted" /\ status = run_log[n].returncode
        /\ pc = "aborted" => n > 0 /\ run_log[n].returncode # 0
        /\ pc = "finished" <=> status = 0
        /\ pc = "finished" =>
              n = Len(expected) /\ \A k \in 1..n : run_log[k].returncode = 0
        /\ pc \in {"prepare", "train", "score", "bucketize"} =>
              n < Len(expected) /\ pc = CASE expected[n + 1] = "01_prepare_data" -> "prepare"
                                           [] expected[n + 1] = "02_train_model" -> "train"
                                           [] expected[n + 1] = "03_score" -> "score"
                                           [] expected[n + 1] = "04_bucketize" -> "bucketize"

\* a second invocation, with training, in which prepare and train returned
\* zero and score did not: run_all exited after three stages
C17_Witness ==
    /\ ncmd = 2 /\ ~skip_train /\ pc = "aborted"
    /\ Len(run_log) = 3
    /\ run_log[3].stage = "03_score" /\ run_log[3].returncode # 0
    /\ status # 0
    /\ bucketized.exists

====
